---------------------------- MODULE Spec2Model ----------------------------
(***************************************************************************)
(* Model of the adaptive collection engine of vacbug/Quode:                *)
(*   - src/twitter_scraper.py : TwitterScraper.collect_tweets,             *)
(*     _collect_tweets_for_hashtag, collect_tweets_streaming               *)
(*   - src/rate_limiter.py    : RateLimiter, RequestSession                *)
(* Three state machines share the variables: the collector (SpecCollect,   *)
(* FairCollect, FairStream), the rate limiter driven directly (Spec) and   *)
(* one request session over the rate limiter (SpecSession).  The scraper   *)
(* constructs a RateLimiter but none of its collection methods calls       *)
(* wait_if_needed or record_request, so the collector's actions leave the  *)
(* limiter's variables unchanged.                                          *)
(*                                                                         *)
(* Time is counted in whole seconds.  Floats are modelled exactly: the      *)
(* backoff multiplier is a rational <<numerator, denominator>> in lowest   *)
(* terms (0.9 is 9/10, 1.5 is 3/2), and the jitter is drawn in halves.     *)
(***************************************************************************)
EXTENDS Integers, Sequences, FiniteSets, TLC

VARIABLES
    \* ---- TwitterScraper (src/twitter_scraper.py) ----
    mode,            \* "batch": collect_tweets, "stream": collect_tweets_streaming
    hashtags,        \* the query list of the run
    max_tweets,      \* max_tweets of the running pagination loop's caller
    end_time,        \* streaming deadline (0 in batch mode: never read)
    now,             \* the clock, datetime.now()
    pc,              \* position of the collector
    qi,              \* index in hashtags of the for loop
    tweets,          \* local list of _collect_tweets_for_hashtag
    scroll_count,    \* local counter of _collect_tweets_for_hashtag
    seen_hashes,     \* the run's set of content hashes
    all_tweets,      \* collect_tweets: all_tweets
    unique_tweets,   \* collect_tweets: the returned list
    batch_tweets,    \* streaming: items of the batch not yet yielded
    yielded,         \* streaming: the items the consumer received, in order
    \* ---- observation of the collector (history variables) ----
    failure,         \* the fetch failure seen by the running loop, or "none"
    one_each,        \* every iteration of the running loop accepted one item
    dup_rejected,    \* some examined record carried a hash already seen
    last_sleep,      \* kind of the latest inter-batch sleep of the stream
    started,         \* the queries whose loop the current pass has started
    \* ---- RateLimiter (src/rate_limiter.py) ----
    config,          \* get_config().rate_limiting
    user_agents,     \* the identity pool
    request_history, \* deque of RequestInfo, newest last
    last_request_time,        \* <<>> for None, <<t>> for a timestamp
    consecutive_failures,
    backoff_multiplier,       \* a rational <<numerator, denominator>>
    current_user_agent_index,
    \* ---- RequestSession ----
    total_requests,
    successful_requests,
    failed_requests,
    in_flight,       \* a make_request call is between its first and last line
    user_agent,      \* local of make_request
    outcome,         \* how the latest make_request call ended for its caller
    f_result,        \* what request_func did in the latest call
    interrupts,      \* make_request calls ended by a BaseException that is
                     \* no Exception
    \* ---- observation of the limiter (history variables) ----
    recorded,        \* record_request calls since construction or reset()
    run_base,        \* backoff_multiplier when consecutive_failures was last 0
    after_reset,     \* reset() is the latest call that changed the limiter
    \* ---- scopes: collect_data's try/finally, the with statement ----
    scope,           \* "none" (no scope in use), "open" or "closed"
    exits,           \* runs of the exit step (close() / __exit__)
    body_raised,     \* what the body of the scope raised, or "none"
    propagated,      \* what left the scope as an exception, or "none"
    exit_code,       \* main's return value: <<>> while it runs, then <<n>>
    \* ---- observation of single calls on the limiter ----
    called,          \* name of the latest observed call, or "none"
    returned,        \* the identities returned by the latest run of
                     \* consecutive rotate_user_agent / get_user_agent calls
    \* ---- asynchronous tasks sharing one AsyncRateLimiter ----
    task_pc,         \* position of each task
    task_local,      \* locals of each task: the wake-up time of its sleep,
                     \* the ordinal of its request, the request's result
    completed,       \* the completed requests, in completion order
    \* ---- DataValidator.validate_tweet_batch (src/data_validator.py) ----
    tweet_batch,     \* the argument tweets: records (content_hash, is_valid)
    next_tweet,      \* position of the for loop in the batch (0: no call)
    total_records,
    valid_records,
    invalid_records,
    duplicate_records,
    content_hashes,
    validated,       \* positions validate_tweet was called for (history)
    metrics          \* <<>> until the call returns, then <<the result>>

collectVars == <<mode, hashtags, max_tweets, end_time, pc, qi, tweets,
                 scroll_count, seen_hashes, all_tweets, unique_tweets,
                 batch_tweets, yielded, failure, one_each, dup_rejected,
                 last_sleep, started>>

limiterVars == <<config, user_agents, request_history, last_request_time, consecutive_failures,
                 backoff_multiplier, current_user_agent_index, recorded,
                 run_base, after_reset>>

sessionVars == <<total_requests, successful_requests, failed_requests,
                 in_flight, user_agent, outcome, f_result, interrupts>>

scopeVars == <<scope, exits, body_raised, propagated, exit_code>>

callVars == <<called, returned>>

validatorVars == <<tweet_batch, next_tweet, total_records, valid_records,
                   invalid_records, duplicate_records, content_hashes,
                   validated, metrics>>

taskVars == <<task_pc, task_local, completed>>

vars == <<collectVars, now, limiterVars, sessionVars, scopeVars, callVars,
          taskVars, validatorVars>>

-----------------------------------------------------------------------------
(* Bounds of the model *)

NQueries == 2          \* longest query list
NFingerprints == 2     \* distinct content hashes the source can show
MaxPageLen == 2        \* most tweet elements on one page
MaxItemsArg == 2       \* largest max_tweets_per_hashtag of a batch call
MaxMinutes == 1        \* longest duration_minutes of a streaming call
MaxRecords == 7        \* record_request calls between two resets (Spec)
MaxSessionRequests == 3  \* make_request calls made on one session
MaxClock == 90         \* idle time stops passing at this clock value
HistoryMaxLen == 2     \* stands for deque(maxlen=1000), scaled down
NAgents == 2           \* largest configured identity pool
NTasks == 2            \* tasks that share one AsyncRateLimiter
MaxAsyncRequests == 3  \* requests the tasks make in all
MaxBatchLen == 3       \* longest batch given to validate_tweet_batch

(* Program constants *)

max_scrolls == 10          \* _collect_tweets_for_hashtag

(* Configuration of the run that no code of the collector reads *)

\* maxIterationsPerQuery of the configuration source
max_iterations_per_query == 1
StreamBatchSize == 10      \* collect_tweets_streaming: batch of 10
PacingMin == 30            \* random.uniform(30, 60)
PacingMax == 60

-----------------------------------------------------------------------------
(* Small helpers *)

Min(a, b) == IF a <= b THEN a ELSE b
Max(a, b) == IF a >= b THEN a ELSE b
Range(s) == {s[i] : i \in 1..Len(s)}
NoDup(s) == \A i, j \in 1..Len(s) : i # j => s[i] # s[j]
IsPrefix(s, t) == Len(s) <= Len(t) /\ SubSeq(t, 1, Len(s)) = s

(* What the outside world can show *)

Fingerprints == 1..NFingerprints
NoRecord == 0   \* _extract_tweet_data returned None
Candidates == Fingerprints \cup {NoRecord}
Pages == UNION {[1..n -> Candidates] : n \in 0..MaxPageLen}
QueryLists == {[i \in 1..n |-> i] : n \in 0..NQueries}

\* time.sleep(random.uniform(30, 60)): the two ends of the interval
PacingTimes == {PacingMin, PacingMax}
\* _search_twitter takes 3 to 17 s: sleep(2..4), popup sleep(1), the wait
\* for tweets (up to 10 s), sleep(1..2)
SearchTimes == {10}
\* a page advance takes 4 to 11 s: _scroll_page(1) sleeps 2..4 [+ 1..3],
\* and the loop sleeps 2..4 after it
ScrollTimes == {10}
\* collect_tweets: time.sleep(random.uniform(3, 6))
HashtagTimes == {3, 6}
\* one pass of "while datetime.now() < end_time" over an empty hashtag
\* list sleeps nowhere and takes far less than a second: the clock, in
\* whole seconds, stays or moves on by one
CycleTimes == {0, 1}


-----------------------------------------------------------------------------
(* Exact arithmetic on the floats of the rate limiter *)

RECURSIVE Gcd(_, _)
Gcd(a, b) == IF b = 0 THEN a ELSE Gcd(b, a % b)
Norm(r) == LET g == Gcd(r[1], r[2]) IN <<r[1] \div g, r[2] \div g>>
ONE == <<1, 1>>
TEN == <<10, 1>>
Mul(a, b) == Norm(<<a[1] * b[1], a[2] * b[2]>>)
Leq(a, b) == a[1] * b[2] <= b[1] * a[2]
Lt(a, b) == a[1] * b[2] < b[1] * a[2]
RMin(a, b) == IF Leq(a, b) THEN a ELSE b
RMax(a, b) == IF Leq(b, a) THEN a ELSE b
RECURSIVE RPow(_, _)
RPow(r, n) == IF n = 0 THEN ONE ELSE Mul(r, RPow(r, n - 1))
RECURSIVE Pow2(_)
Pow2(n) == IF n = 0 THEN 1 ELSE 2 * Pow2(n - 1)
Last(s) == s[Len(s)]

(* Configurations and inputs of the rate limiter *)

\* delay_between_requests, max_delay (seconds), exponential_backoff,
\* requests_per_minute
\* the values of src/demo.py's MockRateLimiting, with a max_delay
DemoConfig ==
    [delay_between_requests |-> 2, max_delay |-> 60,
     exponential_backoff |-> TRUE, requests_per_minute |-> 30]
Configs ==
    { DemoConfig,
      [delay_between_requests |-> 2, max_delay |-> 5,
       exponential_backoff |-> FALSE, requests_per_minute |-> 2],
      [delay_between_requests |-> 4, max_delay |-> 10,
       exponential_backoff |-> TRUE, requests_per_minute |-> 1] }
\* self.config.user_agents or the defaults: a pool is never empty
AgentPools == {[i \in 1..n |-> i] : n \in 1..NAgents}
\* random.uniform(0.5, 1.5), in halves: 0.5, 1.0, 1.5
JitterHalves == {1, 2, 3}
\* response times of the request function, seconds
Latencies == {0, 1}
\* time that passes between two calls made on the limiter
Ticks == {30}

-----------------------------------------------------------------------------
(* The collector *)

\* The collector reads the clock only in "datetime.now() < end_time"
\* (streaming); the model tracks the clock up to the deadline and not at
\* all in batch mode, where it is never read.
Elapse_Frozen(d) == now
Elapse(d) == IF mode = "stream" THEN Min(now + d, end_time) ELSE now

\* The dedup test of _collect_tweets_for_hashtag:
\* tweet_data.content_hash not in seen_hashes.
IsNew_Always(h, seen) == TRUE
IsNew(h, seen) == h \notin seen

\* The for loop over tweet_elements: returns <<tweets, seen_hashes>>.
\* An element is NoRecord when _extract_tweet_data returned None.
RECURSIVE ProcessPage_NoBreak(_, _, _, _)
ProcessPage_NoBreak(elems, tw, seen, maxT) ==
    IF elems = <<>> THEN <<tw, seen>>
    ELSE LET c == Head(elems) IN
         IF c # NoRecord /\ IsNew(c, seen)
         THEN ProcessPage_NoBreak(Tail(elems), Append(tw, c), seen \cup {c},
                                  maxT)
         ELSE ProcessPage_NoBreak(Tail(elems), tw, seen, maxT)

RECURSIVE ProcessPage_NoInsert(_, _, _, _)
ProcessPage_NoInsert(elems, tw, seen, maxT) ==
    IF elems = <<>> \/ Len(tw) >= maxT THEN <<tw, seen>>
    ELSE LET c == Head(elems) IN
         IF c # NoRecord /\ IsNew(c, seen)
         THEN ProcessPage_NoInsert(Tail(elems), Append(tw, c), seen, maxT)
         ELSE ProcessPage_NoInsert(Tail(elems), tw, seen, maxT)

RECURSIVE ProcessPage(_, _, _, _)
ProcessPage(elems, tw, seen, maxT) ==
    IF elems = <<>> \/ Len(tw) >= maxT THEN <<tw, seen>>
    ELSE LET c == Head(elems) IN
         IF c # NoRecord /\ IsNew(c, seen)
         THEN ProcessPage(Tail(elems), Append(tw, c), seen \cup {c}, maxT)
         ELSE ProcessPage(Tail(elems), tw, seen, maxT)

\* Whether that for loop examined a record whose hash was already seen.
RECURSIVE MeetsDuplicate(_, _, _, _)
MeetsDuplicate(elems, n, seen, maxT) ==
    IF elems = <<>> \/ n >= maxT THEN FALSE
    ELSE LET c == Head(elems) IN
         IF c = NoRecord THEN MeetsDuplicate(Tail(elems), n, seen, maxT)
         ELSE IF c \in seen THEN TRUE
         ELSE MeetsDuplicate(Tail(elems), n + 1, seen \cup {c}, maxT)

\* The final pass of collect_tweets: keeps an item iff its hash is not in
\* seen_hashes, adding it.  Returns the kept list.
RECURSIVE FinalDedup(_, _)
FinalDedup(items, seen) ==
    IF items = <<>> THEN <<>>
    ELSE IF Head(items) \notin seen
         THEN <<Head(items)>> \o FinalDedup(Tail(items), seen \cup {Head(items)})
         ELSE FinalDedup(Tail(items), seen)

\* except Exception in _collect_tweets_for_hashtag: log, then fall through
\* to "return tweets": the list as it stands.
OnFetchError_Drop(tw) == <<>>
OnFetchError(tw) == tw

\* scroll_count += 1
NextScrollCount_Stuck(n) == n
NextScrollCount(n) == n + 1

\* RateLimiter.__init__, the configuration given
limiterInit ==
    /\ request_history = <<>>
    /\ last_request_time = <<>>
    /\ consecutive_failures = 0
    /\ backoff_multiplier = ONE
    /\ current_user_agent_index = 0
    /\ recorded = 0
    /\ run_base = ONE
    /\ after_reset = FALSE

\* RequestSession.__init__
sessionInit ==
    /\ total_requests = 0
    /\ successful_requests = 0
    /\ failed_requests = 0
    /\ in_flight = FALSE
    /\ user_agent = 0
    /\ outcome = "none"
    /\ f_result = "none"
    /\ interrupts = 0

\* No scope is in use, no call is observed, no task runs.
noScope ==
    /\ scope = "none" /\ exits = 0 /\ body_raised = "none"
    /\ propagated = "none" /\ exit_code = <<>>
\* The scope was entered (the try block of collect_data, __enter__) and its
\* body runs.
openScope ==
    /\ scope = "open" /\ exits = 0 /\ body_raised = "none"
    /\ propagated = "none" /\ exit_code = <<>>
noCalls ==
    /\ called = "none" /\ returned = <<>>
    /\ tweet_batch = <<>> /\ next_tweet = 0 /\ total_records = 0
    /\ valid_records = 0 /\ invalid_records = 0 /\ duplicate_records = 0
    /\ content_hashes = {} /\ validated = {} /\ metrics = <<>>
noTasks == task_pc = <<>> /\ task_local = <<>> /\ completed = <<>>

\* No collection is running (the limiter is used on its own).
collectIdle ==
    /\ mode = "none" /\ hashtags = <<>> /\ max_tweets = 0 /\ end_time = 0
    /\ pc = "idle" /\ qi = 0 /\ tweets = <<>> /\ scroll_count = 0
    /\ seen_hashes = {} /\ all_tweets = <<>> /\ unique_tweets = <<>>
    /\ batch_tweets = <<>> /\ yielded = <<>>
    /\ failure = "none" /\ one_each = TRUE /\ dup_rejected = FALSE
    /\ last_sleep = "none" /\ started = <<>>

\* collect_tweets(hashtags, max_tweets_per_hashtag) up to the for loop, or
\* collect_tweets_streaming(hashtags, duration_minutes) up to the while loop.
InitCollect ==
    /\ mode \in {"batch", "stream"}
    /\ hashtags \in QueryLists
    /\ now = 0
    /\ IF mode = "batch"
       THEN /\ max_tweets \in -1..MaxItemsArg
            /\ end_time = 0
            /\ pc = "for"
            /\ qi = 1
       ELSE /\ max_tweets = StreamBatchSize
            /\ end_time \in {60 * m : m \in 0..MaxMinutes}
            /\ pc = "while"
            /\ qi = 0
    /\ tweets = <<>> /\ scroll_count = 0
    /\ seen_hashes = {} /\ all_tweets = <<>> /\ unique_tweets = <<>>
    /\ batch_tweets = <<>> /\ yielded = <<>>
    /\ failure = "none" /\ one_each = TRUE /\ dup_rejected = FALSE
    /\ last_sleep = "none" /\ started = <<>>
    /\ config = DemoConfig /\ user_agents = <<1>>
    /\ limiterInit /\ sessionInit
    /\ openScope
    /\ noCalls /\ noTasks

\* The arguments of the run, and what no collection method touches.
frame == <<mode, hashtags, max_tweets, end_time, limiterVars, sessionVars,
           callVars, taskVars, validatorVars>>

\* while datetime.now() < end_time:
StreamWhile ==
    /\ mode = "stream" /\ pc = "while"
    /\ IF now < end_time
       THEN pc' = "for" /\ qi' = 1 /\ started' = <<>>
       ELSE pc' = "done" /\ qi' = qi /\ started' = started
    /\ UNCHANGED <<frame, scopeVars, now, tweets, scroll_count, seen_hashes,
                   all_tweets, unique_tweets, batch_tweets, yielded,
                   failure, one_each, dup_rejected, last_sleep>>

\* for hashtag in hashtags: the call of _collect_tweets_for_hashtag, up to
\* its try; or the end of the for loop (in streaming followed by
\* "if datetime.now() >= end_time: break").  A cycle over a non-empty list
\* spends its time in the sleeps of the other actions; the time of a cycle
\* over an empty list is counted here.
ForHashtag ==
    /\ pc = "for"
    /\ IF qi <= Len(hashtags)
       THEN /\ pc' = "search"
            /\ tweets' = <<>>
            /\ scroll_count' = 0
            /\ failure' = "none"
            /\ one_each' = TRUE
            /\ now' = now
            /\ started' = Append(started, hashtags[qi])
       ELSE /\ \E d \in CycleTimes :
                  now' = IF hashtags = <<>> THEN Elapse(d) ELSE now
            /\ pc' = IF mode = "batch" THEN "final"
                     ELSE IF now' >= end_time THEN "done" ELSE "while"
            /\ UNCHANGED <<tweets, scroll_count, failure, one_each, started>>
    /\ UNCHANGED <<frame, scopeVars, qi, seen_hashes, all_tweets, unique_tweets,
                   batch_tweets, yielded, dup_rejected, last_sleep>>

\* self._search_twitter(hashtag): called directly on the driver.  It
\* re-raises, and the except of _collect_tweets_for_hashtag ends the loop.
SearchTwitter ==
    /\ pc = "search"
    /\ \E ok \in BOOLEAN, d \in SearchTimes :
          /\ now' = Elapse(d)
          /\ IF ok THEN /\ pc' = "loop"
                        /\ UNCHANGED <<failure, tweets>>
                   ELSE /\ pc' = "ret"
                        /\ failure' = "search"
                        /\ tweets' = OnFetchError(tweets)
    /\ UNCHANGED <<frame, started, scopeVars, qi, scroll_count, seen_hashes, all_tweets,
                   unique_tweets, batch_tweets, yielded, dup_rejected,
                   last_sleep,
                   one_each>>

\* while len(tweets) < max_tweets and scroll_count < max_scrolls:
\*     find_elements, then the for loop over the elements.
LoopBody ==
    /\ pc = "loop"
    /\ IF Len(tweets) < max_tweets /\ scroll_count < max_scrolls
       THEN \/ \E page \in Pages :
                 LET r == ProcessPage(page, tweets, seen_hashes, max_tweets) IN
                 /\ tweets' = r[1]
                 /\ seen_hashes' = r[2]
                 /\ dup_rejected' =
                       (dup_rejected \/ MeetsDuplicate(page, Len(tweets),
                                                       seen_hashes, max_tweets))
                 /\ pc' = "scroll"
                 /\ failure' = failure
                 /\ one_each' = (one_each /\ Len(r[1]) = Len(tweets) + 1)
            \/ \* find_elements raised
               /\ pc' = "ret"
               /\ failure' = "elements"
               /\ tweets' = OnFetchError(tweets)
               /\ UNCHANGED <<seen_hashes, dup_rejected, one_each>>
       ELSE /\ pc' = "ret"
            /\ UNCHANGED <<tweets, seen_hashes, failure, dup_rejected,
                           one_each>>
    /\ UNCHANGED <<frame, started, scopeVars, now, qi, scroll_count, all_tweets, unique_tweets,
                   batch_tweets, yielded, last_sleep>>

\* if len(tweets) < max_tweets: self._scroll_page(1); scroll_count += 1;
\* sleep.  _scroll_page catches its own exceptions and only logs them.
ScrollPage ==
    /\ pc = "scroll"
    /\ pc' = "loop"
    /\ IF Len(tweets) < max_tweets
       THEN /\ scroll_count' = NextScrollCount(scroll_count)
            /\ \E ok \in BOOLEAN, d \in ScrollTimes :
                  /\ now' = Elapse(d)
                  /\ failure' = IF ok THEN failure ELSE "scroll"
       ELSE UNCHANGED <<scroll_count, now, failure>>
    /\ UNCHANGED <<frame, started, scopeVars, qi, tweets, seen_hashes, all_tweets, unique_tweets,
                   batch_tweets, yielded, dup_rejected, last_sleep,
                   one_each>>

\* collect_tweets: the for loop moves on to the next hashtag whatever the
\* loop of this one met (its except clause only logs and continues).
NextQuery_Retry(i, fail) == IF fail # "none" THEN i ELSE i + 1
NextQuery(i, fail) == i + 1

\* return tweets, to collect_tweets: extend, sleep, next hashtag.
ReturnToBatch ==
    /\ mode = "batch" /\ pc = "ret"
    /\ all_tweets' = all_tweets \o tweets
    /\ \E d \in HashtagTimes : now' = Elapse(d)
    /\ qi' = NextQuery(qi, failure)
    /\ pc' = "for"
    /\ UNCHANGED <<frame, started, scopeVars, tweets, scroll_count, seen_hashes, unique_tweets,
                   batch_tweets, yielded, failure, dup_rejected, last_sleep,
                   one_each>>

\* The last loop of collect_tweets and its return.
FinalPass ==
    /\ mode = "batch" /\ pc = "final"
    /\ unique_tweets' = FinalDedup(all_tweets, seen_hashes)
    /\ seen_hashes' = seen_hashes \cup Range(all_tweets)
    /\ pc' = "done"
    /\ UNCHANGED <<frame, started, scopeVars, now, qi, tweets, scroll_count, all_tweets,
                   batch_tweets, yielded, failure, dup_rejected, last_sleep,
                   one_each>>

\* return tweets, to collect_tweets_streaming: batch_tweets = ...
ReturnToStream ==
    /\ mode = "stream" /\ pc = "ret"
    /\ batch_tweets' = tweets
    /\ pc' = "yield"
    /\ UNCHANGED <<frame, started, scopeVars, now, qi, tweets, scroll_count, seen_hashes,
                   all_tweets, unique_tweets, yielded, failure,
                   dup_rejected, last_sleep,
                   one_each>>

\* for tweet in batch_tweets: the item the iteration hands out next.
NextToYield_Last(batch) == batch[Len(batch)]
NextToYield(batch) == Head(batch)

\* for tweet in batch_tweets: yield tweet
YieldTweet ==
    /\ mode = "stream" /\ pc = "yield"
    /\ IF batch_tweets # <<>>
       THEN /\ yielded' = Append(yielded, NextToYield(batch_tweets))
            /\ batch_tweets' = Tail(batch_tweets)
            /\ pc' = pc
       ELSE /\ pc' = "sleep"
            /\ UNCHANGED <<yielded, batch_tweets>>
    /\ UNCHANGED <<frame, started, scopeVars, now, qi, tweets, scroll_count, seen_hashes,
                   all_tweets, unique_tweets, failure, dup_rejected,
                   last_sleep,
                   one_each>>

\* time.sleep(random.uniform(30, 60)), then the next hashtag.  The except
\* branch (time.sleep(60)) needs an Exception out of the try body:
\* _collect_tweets_for_hashtag catches every Exception itself, so no
\* statement of the body raises one and the branch is never taken.
StreamSleep ==
    /\ mode = "stream" /\ pc = "sleep"
    /\ \E d \in PacingTimes : now' = Elapse(d)
    /\ last_sleep' = "pacing"
    /\ qi' = qi + 1
    /\ pc' = "for"
    /\ UNCHANGED <<frame, started, scopeVars, tweets, scroll_count, seen_hashes, all_tweets,
                   unique_tweets, batch_tweets, yielded, failure,
                   dup_rejected,
                   one_each>>

\* The body of the scope around the collector ended without an exception:
\* collect_data's "return tweet_dicts" runs the finally clause
\* (scraper.close()), the with statement around a streaming session runs
\* __exit__ (self.close()).  What the body raised is what leaves the scope
\* unless the exit step returns a true value; close()'s result is
\* discarded by the finally clause and __exit__ returns None.
ExitSuppresses_Always == TRUE
ExitSuppresses == FALSE

Leaves(raised) == IF ExitSuppresses THEN "none" ELSE raised

ExitScope(raised) ==
    /\ scope' = "closed"
    /\ exits' = exits + 1
    /\ body_raised' = raised
    /\ propagated' = Leaves(raised)

ScopeReturns ==
    /\ pc = "done" /\ scope = "open"
    /\ ExitScope("none")
    /\ pc' = IF mode = "batch" THEN "save" ELSE pc
    /\ UNCHANGED <<frame, started, exit_code, now, qi, tweets, scroll_count,
                   seen_hashes, all_tweets, unique_tweets, batch_tweets,
                   yielded, failure, dup_rejected, last_sleep, one_each>>

\* save_data(tweets): "earliest": min([tweet['timestamp'] for tweet in
\* tweets]) raises ValueError for an empty list.
SaveDataRaises(tw) == tw = <<>>

\* main(): return 0 at the end of the try block, return 1 in both except
\* clauses.
MainReturn(raised) == IF raised THEN 1 ELSE 0

\* main in collect mode after collect_data returned: save_data(tweets) and
\* the return of main.
SaveData ==
    /\ mode = "batch" /\ pc = "save"
    /\ exit_code' = <<MainReturn(SaveDataRaises(unique_tweets))>>
    /\ pc' = "exit"
    /\ UNCHANGED <<frame, started, scope, exits, body_raised, propagated, now, qi,
                   tweets, scroll_count, seen_hashes, all_tweets,
                   unique_tweets, batch_tweets, yielded, failure,
                   dup_rejected, last_sleep, one_each>>

NextCollect ==
    \/ StreamWhile
    \/ ForHashtag
    \/ SearchTwitter
    \/ LoopBody
    \/ ScrollPage
    \/ ReturnToBatch
    \/ FinalPass
    \/ ReturnToStream
    \/ YieldTweet
    \/ StreamSleep
    \/ ScopeReturns
    \/ SaveData

SpecCollect == InitCollect /\ [][NextCollect]_vars

\* The collector is one sequential thread: it keeps running until it returns.
FairCollect == SpecCollect /\ WF_vars(NextCollect)

\* The clock advances: a collector that keeps passing through the end of
\* its cycle sees a later clock value there again and again.
ClockAdvances == ForHashtag /\ now' # now
FairStream == FairCollect /\ SF_vars(ClockAdvances)

-----------------------------------------------------------------------------
(* The rate limiter *)

\* utils.helpers.exponential_backoff_delay(attempt, base_delay, max_delay)
exponential_backoff_delay(attempt, base, maxd) ==
    Min(maxd, base * Pow2(attempt))

\* calculate_delay up to the jitter: the delay before it is multiplied.
PreJitterDelay_NoBackoff == config.delay_between_requests
PreJitterDelay ==
    IF config.exponential_backoff /\ consecutive_failures > 0
    THEN Max(config.delay_between_requests,
             exponential_backoff_delay(consecutive_failures,
                                       config.delay_between_requests,
                                       config.max_delay))
    ELSE config.delay_between_requests

\* calculate_delay with the jitter draw j/2, as a rational number of seconds.
calculate_delay_NoCap(j) == Norm(<<PreJitterDelay * j, 2>>)
calculate_delay(j) ==
    RMin(Norm(<<PreJitterDelay * j, 2>>), <<config.max_delay, 1>>)

\* calculate_delay with the jitter draw j/2 in the state that differs from
\* the current one in backoff_multiplier = m only: calculate_delay reads
\* config and consecutive_failures, and never backoff_multiplier.
calculate_delay_in(m, j) == calculate_delay(j)

\* should_wait with the jitter draw j/2.
should_wait_Leq(j) ==
    IF last_request_time = <<>> THEN FALSE
    ELSE Leq(<<now - last_request_time[1], 1>>, calculate_delay(j))
should_wait(j) ==
    IF last_request_time = <<>> THEN FALSE
    ELSE Lt(<<now - last_request_time[1], 1>>, calculate_delay(j))

\* deque.append with maxlen: the oldest entry is dropped when full.
DequeAppend_Unbounded(h, e) == Append(h, e)
DequeAppend(h, e) ==
    IF Len(h) < HistoryMaxLen THEN Append(h, e) ELSE Append(Tail(h), e)

\* record_request: the new value of backoff_multiplier.
NextMultiplier_NoCeiling(success, m) ==
    IF success THEN RMax(ONE, Mul(m, <<9, 10>>))
               ELSE Mul(m, <<3, 2>>)
NextMultiplier_Double(success, m) ==
    IF success THEN RMax(ONE, Mul(m, <<9, 10>>))
               ELSE RMin(TEN, Mul(m, <<2, 1>>))
NextMultiplier_Reset(success, m) ==
    IF success THEN ONE
               ELSE RMin(TEN, Mul(m, <<3, 2>>))
NextMultiplier(success, m) ==
    IF success THEN RMax(ONE, Mul(m, <<9, 10>>))
               ELSE RMin(TEN, Mul(m, <<3, 2>>))

\* record_request: the new value of consecutive_failures.
NextFailures_Keep(success, n) == IF success THEN n ELSE n + 1
NextFailures_Capped(success, n) ==
    IF success THEN 0 ELSE Min(n + 1, HistoryMaxLen)
NextFailures(success, n) == IF success THEN 0 ELSE n + 1

\* record_request(success, response_time, user_agent) at clock value t.
\* RequestInfo.user_agent is written here and read nowhere in the
\* repository; the model's RequestInfo leaves the field out.
record_request(success, response_time, ua, t) ==
    /\ request_history' =
          DequeAppend(request_history,
                      [timestamp |-> t, success |-> success,
                       response_time |-> response_time])
    /\ last_request_time' = <<t>>
    /\ consecutive_failures' = NextFailures(success, consecutive_failures)
    /\ backoff_multiplier' = NextMultiplier(success, backoff_multiplier)
    /\ recorded' = recorded + 1
    /\ run_base' = IF success THEN NextMultiplier(success, backoff_multiplier)
                              ELSE run_base
    /\ after_reset' = FALSE

\* reset(): the new backoff state.
ResetMultiplier_Stale == backoff_multiplier
ResetMultiplier == ONE

\* get_request_stats: "(now - req.timestamp).total_seconds() <= 60"
Window == 60
InWindow_Strict(req, t) == t - req.timestamp < Window
InWindow(req, t) == t - req.timestamp <= Window

\* sum(1 for req in self.request_history if req.success)
RECURSIVE CountSuccesses(_)
CountSuccesses(h) ==
    IF h = <<>> THEN 0
    ELSE (IF Head(h).success THEN 1 ELSE 0) + CountSuccesses(Tail(h))

\* sum(req.response_time for req in self.request_history)
RECURSIVE SumResponseTimes(_)
SumResponseTimes(h) ==
    IF h = <<>> THEN 0 ELSE Head(h).response_time + SumResponseTimes(Tail(h))

\* get_request_stats() at the clock value now: the returned dict.  The
\* two floats that are quotients are rationals.
get_request_stats ==
    IF request_history = <<>>
    THEN [total_requests |-> 0,
          success_rate |-> <<0, 1>>,
          avg_response_time |-> <<0, 1>>,
          requests_per_minute |-> 0]
    ELSE LET recent_requests ==
                 SelectSeq(request_history, LAMBDA req : InWindow(req, now))
             total == Len(request_history)
         IN [total_requests |-> total,
             success_rate |->
                 Norm(<<CountSuccesses(request_history), total>>),
             avg_response_time |->
                 Norm(<<SumResponseTimes(request_history), total>>),
             requests_per_minute |-> Len(recent_requests),
             consecutive_failures |-> consecutive_failures,
             backoff_multiplier |-> backoff_multiplier]

\* is_rate_limited()
is_rate_limited ==
    get_request_stats.requests_per_minute >= config.requests_per_minute

\* A caller records an outcome on the limiter.
RecordRequest ==
    /\ recorded < MaxRecords
    /\ \E success \in BOOLEAN, rt \in Latencies, ua \in Range(user_agents) :
          record_request(success, rt, ua, now)
    /\ UNCHANGED <<collectVars, scopeVars, callVars, taskVars, validatorVars, now, config, user_agents,
                   current_user_agent_index, sessionVars>>

\* reset()
Reset ==
    /\ request_history' = <<>>
    /\ last_request_time' = <<>>
    /\ consecutive_failures' = 0
    /\ backoff_multiplier' = ResetMultiplier
    /\ run_base' = ResetMultiplier
    /\ recorded' = 0
    /\ after_reset' = TRUE
    /\ UNCHANGED <<collectVars, scopeVars, callVars, taskVars, validatorVars, now, config, user_agents,
                   current_user_agent_index, sessionVars>>

\* rotate_user_agent(): the cursor moves to the next identity of the pool,
\* which is returned.  The pool is never empty (see AgentPools).
NextAgentIndex_Skip(i, n) == (i + 2) % n
NextAgentIndex(i, n) == (i + 1) % n

RotateUserAgent ==
    /\ current_user_agent_index' =
          NextAgentIndex(current_user_agent_index, Len(user_agents))
    /\ after_reset' = FALSE
    /\ UNCHANGED <<collectVars, scopeVars, callVars, taskVars, validatorVars, now, config, user_agents, request_history,
                   last_request_time, consecutive_failures,
                   backoff_multiplier, recorded, run_base, sessionVars>>

\* Time passes between two calls.
Tick ==
    /\ \E d \in Ticks : now + d <= MaxClock /\ now' = now + d
    /\ UNCHANGED <<collectVars, scopeVars, callVars, taskVars, validatorVars, limiterVars, sessionVars>>

Init ==
    /\ collectIdle
    /\ now = 0
    /\ config \in Configs
    /\ user_agents \in AgentPools
    /\ limiterInit
    /\ sessionInit
    /\ noScope /\ noCalls /\ noTasks

Next ==
    \/ RecordRequest
    \/ Reset
    \/ RotateUserAgent
    \/ Tick

Spec == Init /\ [][Next]_vars

-----------------------------------------------------------------------------
(* The limiter with a log of every outcome recorded on it *)

\* record_request, the outcome also written to the log.  The log is never
\* cut: its last `recorded` entries are the outcomes since construction or
\* the last reset().
LoggedRecord ==
    /\ Len(completed) < MaxRecords
    /\ \E success \in BOOLEAN, rt \in Latencies :
          /\ record_request(success, rt, user_agents[1], now)
          /\ completed' = Append(completed,
                                 [timestamp |-> now, success |-> success,
                                  response_time |-> rt])
    /\ UNCHANGED <<collectVars, scopeVars, callVars, validatorVars, task_pc, task_local,
                   now, config, user_agents, current_user_agent_index,
                   sessionVars>>

InitLog ==
    /\ Init
    /\ config = DemoConfig
    /\ user_agents = <<1>>

NextLog ==
    \/ LoggedRecord
    \/ Reset

SpecLog == InitLog /\ [][NextLog]_vars

-----------------------------------------------------------------------------
(* The limiter's queries, called between its other operations *)

\* request_history after get_request_stats(): recent_requests is a new
\* list built by a comprehension; the deque itself is only read.
HistoryAfterStats_Pruned(h, t) == SelectSeq(h, LAMBDA req : InWindow(req, t))
HistoryAfterStats(h, t) == h

\* What a query leaves alone besides the history.
queryFrame ==
    <<collectVars, scopeVars, taskVars, validatorVars, now, config, user_agents,
      last_request_time, consecutive_failures, backoff_multiplier,
      current_user_agent_index, recorded, run_base, after_reset,
      sessionVars, returned>>

\* get_request_stats()
GetRequestStats ==
    /\ called' = "get_request_stats"
    /\ request_history' = HistoryAfterStats(request_history, now)
    /\ UNCHANGED queryFrame

\* is_rate_limited(): stats = self.get_request_stats(), then a comparison.
IsRateLimited ==
    /\ called' = "is_rate_limited"
    /\ request_history' = HistoryAfterStats(request_history, now)
    /\ UNCHANGED queryFrame

\* calculate_delay(): locals only (and a draw of random.uniform).
CalculateDelay ==
    /\ called' = "calculate_delay"
    /\ UNCHANGED <<request_history, queryFrame>>

\* should_wait(): reads last_request_time, calls calculate_delay().
ShouldWait ==
    /\ called' = "should_wait"
    /\ UNCHANGED <<request_history, queryFrame>>

InitOps ==
    /\ Init
    /\ config = DemoConfig
    /\ user_agents = <<1, 2>>

NextOps ==
    \/ GetRequestStats
    \/ IsRateLimited
    \/ CalculateDelay
    \/ ShouldWait
    \/ Next

SpecOps == InitOps /\ [][NextOps]_vars

-----------------------------------------------------------------------------
(* The identity pool *)

\* _get_default_user_agents(): eight built-in identities, none of them a
\* configured one.
NDefaultAgents == 8
DefaultUserAgents == [i \in 1..NDefaultAgents |-> NAgents + i]

\* config.user_agents: missing or empty (<<>>), or a list of identities.
ConfiguredPools == {<<>>} \cup AgentPools

\* self.user_agents = self.config.user_agents or
\*                    self._get_default_user_agents()
PoolOf(configured) ==
    IF configured = <<>> THEN DefaultUserAgents ELSE configured

\* The last n elements of s (all of s when it is shorter).
LastN(s, n) == IF Len(s) <= n THEN s ELSE SubSeq(s, Len(s) - n + 1, Len(s))

\* What the calls on the identity pool leave alone.
identityFrame ==
    <<collectVars, scopeVars, taskVars, validatorVars, now, config, user_agents,
      request_history, last_request_time, consecutive_failures,
      backoff_multiplier, recorded, run_base, after_reset, sessionVars>>

\* rotate_user_agent().  returned keeps the identities returned by the
\* latest consecutive calls, at most as many as the pool has.
rotate_user_agent ==
    /\ called' = "rotate_user_agent"
    /\ IF user_agents = <<>>
       THEN /\ current_user_agent_index' = current_user_agent_index
            /\ returned' = <<DefaultUserAgents[1]>>
       ELSE /\ current_user_agent_index' =
                  NextAgentIndex(current_user_agent_index, Len(user_agents))
            /\ returned' =
                  LastN(Append(IF called = "rotate_user_agent"
                               THEN returned ELSE <<>>,
                               user_agents[current_user_agent_index' + 1]),
                        Len(user_agents))
    /\ UNCHANGED identityFrame

\* get_user_agent(): random.choice(self.user_agents).
get_user_agent ==
    /\ called' = "get_user_agent"
    /\ \E ua \in (IF user_agents = <<>> THEN {DefaultUserAgents[1]}
                                        ELSE Range(user_agents)) :
          returned' = <<ua>>
    /\ UNCHANGED <<identityFrame, current_user_agent_index>>

\* RateLimiter.__init__ with the configured pool
InitIdentity ==
    /\ collectIdle
    /\ now = 0
    /\ config = DemoConfig
    /\ \E configured \in ConfiguredPools : user_agents = PoolOf(configured)
    /\ limiterInit /\ sessionInit
    /\ noScope /\ noCalls /\ noTasks

NextIdentity ==
    \/ rotate_user_agent
    \/ get_user_agent
    \/ Reset

SpecIdentity == InitIdentity /\ [][NextIdentity]_vars

-----------------------------------------------------------------------------
(* The request session *)

\* Whole seconds slept by time.sleep(wait_time).  Every delay of Configs
\* with a jitter of JitterHalves is a whole number of seconds.
Ceil(r) == (r[1] + r[2] - 1) \div r[2]

\* wait_if_needed(): the seconds slept, 0 for no sleep.  should_wait and
\* the sleep each draw their own jitter (j1/2, j2/2).
wait_if_needed_NoSleep(j1, j2) == 0
wait_if_needed(j1, j2) ==
    IF should_wait(j1) THEN Ceil(calculate_delay(j2)) ELSE 0

\* make_request up to the call of request_func: count the request, pick an
\* identity (get_user_agent: random.choice), wait_if_needed.
MakeRequestBegin ==
    /\ ~in_flight
    /\ total_requests < MaxSessionRequests
    /\ total_requests' = total_requests + 1
    /\ user_agent' \in Range(user_agents)
    /\ \E j1, j2 \in JitterHalves :
          now' = now + wait_if_needed(j1, j2)
    /\ in_flight' = TRUE
    /\ outcome' = "pending"
    /\ f_result' = "pending"
    /\ UNCHANGED <<collectVars, scopeVars, callVars, taskVars, validatorVars, limiterVars, successful_requests,
                   failed_requests, interrupts>>

\* request_func returned after rt seconds: record, count, return result.
RequestReturns ==
    /\ in_flight
    /\ \E rt \in Latencies :
          /\ now' = now + rt
          /\ record_request(TRUE, rt, user_agent, now + rt)
    /\ successful_requests' = successful_requests + 1
    /\ in_flight' = FALSE
    /\ outcome' = "returned"
    /\ f_result' = "ok"
    /\ UNCHANGED <<collectVars, scopeVars, callVars, taskVars, validatorVars, config, user_agents,
                   current_user_agent_index, total_requests,
                   failed_requests, user_agent, interrupts>>

\* The caller-visible end of make_request when request_func raised an
\* Exception: "raised" (the bare raise of the except clause).
RaisedOutcome_Swallowed == "returned"
RaisedOutcome == "raised"

\* self.failed_requests += 1 in the except clause
FailedAfterRaise_Uncounted(n) == n
FailedAfterRaise(n) == n + 1

\* request_func raised an Exception after rt seconds: record, count, raise.
RequestRaises ==
    /\ in_flight
    /\ \E rt \in Latencies :
          /\ now' = now + rt
          /\ record_request(FALSE, rt, user_agent, now + rt)
    /\ failed_requests' = FailedAfterRaise(failed_requests)
    /\ in_flight' = FALSE
    /\ outcome' = RaisedOutcome
    /\ f_result' = "exception"
    /\ UNCHANGED <<collectVars, scopeVars, callVars, taskVars, validatorVars, config, user_agents,
                   current_user_agent_index, total_requests,
                   successful_requests, user_agent, interrupts>>

\* request_func raised a BaseException that is no Exception
\* (KeyboardInterrupt, SystemExit): "except Exception" does not catch it.
RequestInterrupted ==
    /\ in_flight
    /\ \E rt \in Latencies : now' = now + rt
    /\ in_flight' = FALSE
    /\ outcome' = "interrupted"
    /\ f_result' = "interrupt"
    /\ interrupts' = interrupts + 1
    /\ UNCHANGED <<collectVars, scopeVars, callVars, taskVars, validatorVars, limiterVars, total_requests,
                   successful_requests, failed_requests, user_agent>>

\* Time passes between two make_request calls.
SessionTick ==
    /\ ~in_flight
    /\ Tick

\* {**a, **b}: the keys of both dicts, b's value where both have the key.
Merge(a, b) ==
    [k \in DOMAIN a \cup DOMAIN b |-> IF k \in DOMAIN b THEN b[k] ELSE a[k]]

\* get_session_stats(): the returned dict.  The session was constructed at
\* clock 0, so session_duration is now.
get_session_stats ==
    Merge([session_duration |-> now,
           total_requests |-> total_requests,
           successful_requests |-> successful_requests,
           failed_requests |-> failed_requests,
           success_rate |->
               IF total_requests > 0
               THEN Norm(<<successful_requests, total_requests>>)
               ELSE <<0, 1>>,
           requests_per_second |->
               IF now > 0 THEN Norm(<<total_requests, now>>) ELSE <<0, 1>>],
          get_request_stats)

NextSession ==
    \/ MakeRequestBegin
    \/ RequestReturns
    \/ RequestRaises
    \/ RequestInterrupted
    \/ SessionTick

SpecSession == Init /\ [][NextSession]_vars

\* The limiter after one record_request(success, 0, ua) at clock 0 on a
\* fresh limiter: the state in which a session that is given a limiter
\* already used by another session finds it.
usedLimiter(success) ==
    /\ request_history =
          DequeAppend(<<>>, [timestamp |-> 0, success |-> success,
                            response_time |-> 0])
    /\ last_request_time = <<0>>
    /\ consecutive_failures = NextFailures(success, 0)
    /\ backoff_multiplier = NextMultiplier(success, ONE)
    /\ current_user_agent_index = 0
    /\ recorded = 1
    /\ run_base = ONE
    /\ after_reset = FALSE

\* RequestSession(rate_limiter): the session is constructed on a new
\* limiter (rate_limiter is None) or on one that has been used.
InitShared ==
    /\ collectIdle
    /\ now = 0
    /\ config \in Configs
    /\ user_agents = <<1>>
    /\ limiterInit \/ \E success \in BOOLEAN : usedLimiter(success)
    /\ sessionInit
    /\ noScope /\ noCalls /\ noTasks

SpecShared == InitShared /\ [][NextSession]_vars

-----------------------------------------------------------------------------
(* Asynchronous tasks that share one AsyncRateLimiter.  The event loop runs
   one task at a time, from the point where it is resumed to its next
   suspension. *)

Tasks == 1..NTasks

\* async_wait_if_needed(): the seconds of the awaited asyncio.sleep, 0 for
\* no sleep (the coroutine then returns without suspending).
async_wait_time_Always(j1, j2) == Ceil(calculate_delay(j2))
async_wait_time(j1, j2) ==
    IF should_wait(j1) THEN Ceil(calculate_delay(j2)) ELSE 0

\* async_record_request(success, response_time, user_agent)
async_record_request(success, response_time, ua, t) ==
    record_request(success, response_time, ua, t)

\* async_record_request awaits nothing: a task that was resumed with the
\* result of its request records it before any other task runs.
RecordSuspends_Always == TRUE
RecordSuspends == FALSE

\* The locals of a task that is not making a request.
NoLocals == [wake |-> 0, seq |-> 0, result |-> <<>>]

\* The event loop can resume task t: no other task is running.
CanRun(t) ==
    RecordSuspends \/ \A u \in Tasks \ {t} : task_pc[u] # "recording"

\* Requests begun so far.
Started ==
    Len(completed)
    + Cardinality({t \in Tasks : task_pc[t] \in {"sleeping", "requesting"}})

asyncFrame ==
    <<collectVars, scopeVars, callVars, validatorVars, sessionVars, config, user_agents,
      current_user_agent_index>>

\* Task t begins a request: await limiter.async_wait_if_needed(), then the
\* request is issued and awaited.  With a sleep the task is suspended in
\* asyncio.sleep first.
CanBegin(t) ==
    task_pc[t] = "idle" /\ CanRun(t) /\ Started < MaxAsyncRequests

AsyncWaitIfNeeded(t) ==
    /\ CanBegin(t)
    /\ \E j1, j2 \in JitterHalves :
          LET d == async_wait_time(j1, j2) IN
          /\ task_pc' = [task_pc EXCEPT ![t] =
                            IF d > 0 THEN "sleeping" ELSE "requesting"]
          /\ task_local' = [task_local EXCEPT ![t] =
                               [wake |-> now + d, seq |-> Started + 1,
                                result |-> <<>>]]
    /\ UNCHANGED <<asyncFrame, now, request_history, last_request_time,
                   consecutive_failures, backoff_multiplier, recorded,
                   run_base, after_reset, completed>>

\* The sleep of task t is over (not before its wake-up time): the task
\* issues its request and awaits the response.
Wake(t) ==
    /\ task_pc[t] = "sleeping" /\ CanRun(t)
    /\ now' = Max(now, task_local[t].wake)
    /\ task_pc' = [task_pc EXCEPT ![t] = "requesting"]
    /\ UNCHANGED <<asyncFrame, request_history, last_request_time,
                   consecutive_failures, backoff_multiplier, recorded,
                   run_base, after_reset, task_local, completed>>

\* The request of task t completes after some time and the task is resumed
\* with the result.
Complete(t) ==
    /\ task_pc[t] = "requesting" /\ CanRun(t)
    /\ \E success \in BOOLEAN, rt \in Latencies :
          /\ now' = now + rt
          /\ task_local' = [task_local EXCEPT ![t].result =
                               <<[success |-> success,
                                  response_time |-> rt]>>]
          /\ completed' = Append(completed,
                                 [seq |-> task_local[t].seq,
                                  timestamp |-> now + rt,
                                  success |-> success,
                                  response_time |-> rt])
    /\ task_pc' = [task_pc EXCEPT ![t] = "recording"]
    /\ UNCHANGED <<asyncFrame, request_history, last_request_time,
                   consecutive_failures, backoff_multiplier, recorded,
                   run_base, after_reset>>

\* Task t, resumed with its result: await
\* limiter.async_record_request(success, response_time, user_agent).
Record(t) ==
    /\ task_pc[t] = "recording"
    /\ LET res == task_local[t].result[1] IN
          async_record_request(res.success, res.response_time,
                               user_agents[1], now)
    /\ task_pc' = [task_pc EXCEPT ![t] = "idle"]
    /\ task_local' = [task_local EXCEPT ![t] = NoLocals]
    /\ UNCHANGED <<asyncFrame, now, completed>>

InitAsync ==
    /\ collectIdle
    /\ now = 0
    /\ config = [delay_between_requests |-> 4, max_delay |-> 10,
                 exponential_backoff |-> TRUE, requests_per_minute |-> 1]
    /\ user_agents = <<1>>
    /\ limiterInit /\ sessionInit
    /\ noScope /\ noCalls
    /\ task_pc = [t \in Tasks |-> "idle"]
    /\ task_local = [t \in Tasks |-> NoLocals]
    /\ completed = <<>>

NextAsync ==
    \E t \in Tasks :
       \/ AsyncWaitIfNeeded(t)
       \/ Wake(t)
       \/ Complete(t)
       \/ Record(t)

SpecAsync == InitAsync /\ [][NextAsync]_vars

-----------------------------------------------------------------------------
(* Scopes: collect_data's try/finally around the scraper, and the with
   statement around a TwitterScraper or a RequestSession *)

\* What the body of a scope can raise: an Exception, or a BaseException
\* that is no Exception (KeyboardInterrupt).
Raisable == {"Exception", "KeyboardInterrupt"}

\* with RequestSession() as session: the body makes requests.
InitSessionScope ==
    /\ collectIdle
    /\ now = 0
    /\ config = DemoConfig /\ user_agents = <<1>>
    /\ limiterInit /\ sessionInit
    /\ openScope
    /\ noCalls /\ noTasks

InitScope == InitCollect \/ InitSessionScope

\* A step of the body of the scope.
CollectorBody == mode # "none" /\ scope = "open" /\ NextCollect
SessionBody == mode = "none" /\ scope = "open" /\ NextSession

\* The body raises, or lets through what a call raised to it: the finally
\* clause or __exit__ runs with the exception in flight, and the exception
\* goes on to the caller of the scope.
BodyRaises ==
    /\ scope = "open"
    /\ pc # "done"
    /\ ~in_flight
    /\ \E e \in Raisable : ExitScope(e)
    /\ pc' = "raised"
    /\ UNCHANGED <<frame, started, exit_code, now, qi, tweets, scroll_count,
                   seen_hashes, all_tweets, unique_tweets, batch_tweets,
                   yielded, failure, dup_rejected, last_sleep, one_each>>

\* The body of "with RequestSession() as session" ends without an
\* exception: __exit__(None, None, None).
SessionScopeReturns ==
    /\ mode = "none" /\ scope = "open" /\ ~in_flight
    /\ ExitScope("none")
    /\ pc' = "left"
    /\ UNCHANGED <<frame, started, exit_code, now, qi, tweets, scroll_count,
                   seen_hashes, all_tweets, unique_tweets, batch_tweets,
                   yielded, failure, dup_rejected, last_sleep, one_each>>

\* main(): the exception that left collect_data reaches one of the two
\* except clauses.
MainExcept ==
    /\ mode = "batch" /\ pc = "raised"
    /\ exit_code' = <<MainReturn(propagated # "none")>>
    /\ pc' = "exit"
    /\ UNCHANGED <<frame, started, scope, exits, body_raised, propagated, now, qi,
                   tweets, scroll_count, seen_hashes, all_tweets,
                   unique_tweets, batch_tweets, yielded, failure,
                   dup_rejected, last_sleep, one_each>>

NextScope ==
    \/ CollectorBody
    \/ SessionBody
    \/ BodyRaises
    \/ SessionScopeReturns
    \/ MainExcept

SpecScope == InitScope /\ [][NextScope]_vars

-----------------------------------------------------------------------------
(* Properties *)

\* The pagination loop of the current query is between its call and its
\* return to the driver.
InLoop == pc \in {"search", "loop", "scroll", "ret"}

\* The items accepted so far in the run, in acceptance order.
Accepted ==
    (IF mode = "batch" THEN all_tweets ELSE yielded \o batch_tweets)
    \o (IF InLoop THEN tweets ELSE <<>>)

\* A step that issues a page fetch: the navigation of _search_twitter or a
\* page advance of _scroll_page.
FetchStep ==
    \/ pc = "search" /\ pc' # "search"
    \/ pc = "scroll" /\ scroll_count' # scroll_count

\* C1: a batch call returns exactly the items its pagination loops
\* accepted, in query order and acceptance order; so it returns a non-empty
\* list whenever some query accepted an item.
C1_BatchReturnsAccepted ==
    (mode = "batch" /\ pc = "done") => unique_tweets = all_tweets

\* C2: every page fetch of the pagination loop goes through the request
\* session, so each fetch adds exactly one outcome to the rate limiter's
\* history (k fetches leave k outcomes).
C2_EveryFetchRecorded ==
    [][FetchStep => /\ recorded' = recorded + 1
                    /\ Len(request_history') = Len(request_history) + 1]_vars

\* C3: in streaming mode no query's batch is started once the deadline has
\* passed (the deadline is re-checked before each query's batch).
C3_NoBatchPastDeadline ==
    (mode = "stream" /\ pc = "search") => now < end_time

\* C4: in streaming mode the sleep that follows a batch whose page fetch
\* failed is the extended cool-down, not the normal pacing interval.
C4_CoolDownAfterFailure ==
    (mode = "stream" /\ pc = "for" /\ qi > 1 /\ failure # "none")
        => last_sleep = "cooldown"

\* C5: the pagination loop terminates for every behaviour of the fetcher
\* and the extractor: the iteration counter never exceeds max_scrolls and
\* every loop that is entered returns.
C5_LoopTerminates ==
    /\ [](scroll_count <= max_scrolls)
    /\ (pc = "search") ~> (pc = "ret")

\* C5 witness: a loop returned at the iteration ceiling, the source having
\* shown content on every page without the target being reached.
C5_Witness ==
    pc = "ret" /\ scroll_count = max_scrolls /\ Len(tweets) < max_tweets
    /\ failure = "none"

\* C6: within one run (a batch call or a streaming session, all queries and
\* cycles) no two accepted or yielded items share a fingerprint.
C6_NoDuplicateAccepted == NoDup(Accepted) /\ NoDup(yielded)

\* C6 witness: the second query of a run met a record whose hash an
\* earlier item of the run carries, and the run holds accepted items.
C6_Witness ==
    dup_rejected /\ qi = 2 /\ pc = "scroll" /\ tweets = <<>>
    /\ Len(Accepted) >= 1

\* C7: make_request never swallows a failure: if request_func raised an
\* Exception, exactly one failed outcome is recorded, failed_requests grows
\* by one, successful_requests is unchanged and the caller sees the raise;
\* if it returned, exactly one successful outcome is recorded,
\* successful_requests grows by one and the caller gets the result.
C7_ExecuteOutcome ==
    [][(in_flight /\ ~in_flight' /\ f_result' \in {"ok", "exception"}) =>
          /\ recorded' = recorded + 1
          /\ request_history' =
                DequeAppend(request_history, Last(request_history'))
          /\ Last(request_history').success = (f_result' = "ok")
          /\ total_requests' = total_requests
          /\ IF f_result' = "exception"
             THEN /\ failed_requests' = failed_requests + 1
                  /\ successful_requests' = successful_requests
                  /\ outcome' = "raised"
             ELSE /\ successful_requests' = successful_requests + 1
                  /\ failed_requests' = failed_requests
                  /\ outcome' = "returned"]_vars

\* C7 witness: a session that has seen a request succeed and then one fail.
C7_Witness ==
    /\ f_result = "exception" /\ outcome = "raised" /\ ~in_flight
    /\ failed_requests = 1 /\ successful_requests = 1
    /\ Len(request_history) = 2 /\ ~Last(request_history).success

Clamp(r) == RMax(ONE, RMin(TEN, r))

\* C9: after any sequence of record_request and reset calls,
\* 1.0 <= backoff_multiplier <= 10.0 and consecutive_failures >= 0.
C9_MultiplierBounds ==
    /\ Leq(ONE, backoff_multiplier)
    /\ Leq(backoff_multiplier, TEN)
    /\ consecutive_failures >= 0

\* C9 witness: the ceiling is in force (1.5^7 > 10) after seven failures.
C9_Witness ==
    consecutive_failures = 7 /\ backoff_multiplier = TEN

\* C10 (as stated): with n consecutive failures,
\* backoff_multiplier = clamp(1.5^n, 1.0, 10.0).
C10_MultiplierIsPower ==
    backoff_multiplier = Clamp(RPow(<<3, 2>>, consecutive_failures))

\* C10 (amended): the same, in the states whose current run of failures
\* began with backoff_multiplier = 1.0 (a fresh or reset controller, or one
\* whose multiplier has decayed back to 1.0).
C10_MultiplierFromUnitBase ==
    run_base = ONE =>
        backoff_multiplier = Clamp(RPow(<<3, 2>>, consecutive_failures))

\* C10 witness: six failures in a row after a success, from multiplier 1.0:
\* 1.5^6 > 10, so the multiplier is the ceiling.
C10_Witness ==
    /\ run_base = ONE /\ consecutive_failures = 6 /\ recorded = 7
    /\ backoff_multiplier = TEN

\* C11: in every reachable state, for every configuration and every jitter
\* draw, calculate_delay() is at most max_delay; so every sleep of
\* wait_if_needed (and of async_wait_if_needed, which sleeps the same
\* value) lasts at most max_delay.
C11_DelayAtMostMax ==
    /\ [](\A j \in JitterHalves :
             Leq(calculate_delay(j), <<config.max_delay, 1>>))
    /\ [][(~in_flight /\ in_flight') => now' - now <= config.max_delay]_vars

\* C11 witness: a request that follows a failure at once sleeps exactly
\* max_delay = 10: the delay 4 * 2^1 * 1.5 = 12 was cut to the maximum.
C11_Witness ==
    /\ in_flight /\ consecutive_failures = 1 /\ config.max_delay = 10
    /\ now - last_request_time[1] = config.max_delay

\* C12: one record_request(success) after n consecutive failures sets
\* consecutive_failures to 0, so the next calculate_delay starts from the
\* base delay with no backoff term.
C12_SuccessClearsFailures ==
    [][(recorded' = recorded + 1 /\ Last(request_history').success)
          => /\ consecutive_failures' = 0
             /\ PreJitterDelay' = config.delay_between_requests]_vars

\* C12 witness: a success recorded after two failures, backoff enabled
\* (the multiplier is 1.5 * 1.5 * 0.9).
C12_Witness ==
    /\ recorded = 3 /\ consecutive_failures = 0
    /\ backoff_multiplier = <<81, 40>> /\ config.exponential_backoff
    /\ Last(request_history).success

\* C13: is_rate_limited() is true iff the number of outcomes of the history
\* recorded within the trailing 60 seconds is at least requests_per_minute;
\* with an empty history and requests_per_minute > 0 it is false.
C13_RateLimitedIffWindowFull ==
    LET inWindow == {i \in 1..Len(request_history) :
                        now - request_history[i].timestamp <= 60}
    IN /\ is_rate_limited
             <=> (Cardinality(inWindow) >= config.requests_per_minute)
       /\ (request_history = <<>> /\ config.requests_per_minute > 0)
             => ~is_rate_limited

\* C13 witness: requests_per_minute = 2 and three outcomes recorded within
\* the last 60 seconds, the oldest one held exactly 60 seconds ago.
C13_Witness ==
    /\ config.requests_per_minute = 2 /\ recorded = 3 /\ now = 60
    /\ request_history[1].timestamp = 0 /\ is_rate_limited

\* C14: the history never holds more than its capacity: its length is
\* min(outcomes recorded since construction or reset, capacity), it holds
\* the most recent outcomes in recording order, an insertion into a full
\* history evicts exactly the oldest entry, and total_requests of the
\* stats is the length.
C14_HistoryBounded ==
    /\ [](Len(request_history) = Min(recorded, HistoryMaxLen))
    /\ [](get_request_stats.total_requests = Len(request_history))
    /\ [][recorded' = recorded + 1 =>
            /\ Last(request_history').timestamp = now'
            /\ IF Len(request_history) < HistoryMaxLen
               THEN SubSeq(request_history', 1, Len(request_history))
                       = request_history
               ELSE SubSeq(request_history', 1, HistoryMaxLen - 1)
                       = Tail(request_history)]_vars

\* C14 witness: one outcome more than the capacity was recorded, all of
\* them but the first at clock 60; the history is full and holds the
\* latest ones.
C14_Witness ==
    /\ recorded = HistoryMaxLen + 1 /\ Len(request_history) = HistoryMaxLen
    /\ get_request_stats.total_requests = HistoryMaxLen
    /\ request_history[1].timestamp = 60 /\ now = 60

C16_ResultIsMinOfConfigured ==
    (pc = "ret" /\ failure \notin {"search", "elements"} /\ one_each)
        => Len(tweets) = Min(Max(max_tweets, 0), max_iterations_per_query)

\* C17: the streaming generator terminates for every query list, the empty
\* one included, and every behaviour of the fetcher, provided the clock
\* advances; a cycle over the queries is started only before the deadline,
\* and the generator ends at the end of the cycle in which the deadline
\* passed.
C17_StreamTerminates ==
    /\ (mode = "stream") ~> (pc = "done")
    /\ [][(mode = "stream" /\ pc = "while" /\ pc' = "for")
             => now < end_time]_vars
    /\ [][(mode = "stream" /\ pc = "while" /\ now >= end_time)
             => pc' = "done"]_vars
    /\ [][(mode = "stream" /\ pc = "for" /\ qi > Len(hashtags)
           /\ now' >= end_time) => pc' = "done"]_vars

\* C17 witness: a stream over the empty query list has ended, the clock
\* having reached the deadline of one minute.
C17_Witness ==
    /\ mode = "stream" /\ pc = "done" /\ hashtags = <<>>
    /\ end_time = 60 /\ now = end_time

\* C18: no request is executed through the session while the limiter
\* counts requests_per_minute or more outcomes in the trailing 60 seconds.
C18_NoRequestWhileLimited == in_flight => ~is_rate_limited

\* C19: the list of one pagination loop never holds more than max_tweets
\* items, at every point of the loop and for every page content, and so
\* does the batch handed to the stream; for max_tweets <= 0 it is empty.
C19_AtMostMaxItems ==
    /\ Len(tweets) <= Max(max_tweets, 0)
    /\ Len(batch_tweets) <= Max(max_tweets, 0)
    /\ max_tweets <= 0 => tweets = <<>>

\* C19 witness: a loop with max_tweets = 1 returns one item without having
\* advanced the page.
C19_Witness ==
    /\ mode = "batch" /\ pc = "ret" /\ max_tweets = 1 /\ Len(tweets) = 1
    /\ scroll_count = 0 /\ failure = "none"

\* The limiter's own fields as __init__ leaves them.
FreshBackoffState ==
    /\ request_history = <<>>
    /\ last_request_time = <<>>
    /\ consecutive_failures = 0
    /\ backoff_multiplier = ONE

\* C20: after reset() the history is empty, last_request_time is unset,
\* consecutive_failures = 0 and backoff_multiplier = 1.0: the state from
\* which delays, waiting decisions, recorded outcomes and stats are
\* computed is that of a freshly constructed limiter.  reset leaves the
\* identity pool (with its rotation cursor) and the configuration as they
\* were.
C20_ResetClearsBackoffState ==
    /\ [](after_reset =>
             /\ FreshBackoffState
             /\ PreJitterDelay = config.delay_between_requests
             /\ \A j \in JitterHalves : ~should_wait(j)
             /\ get_request_stats.total_requests = 0)
    /\ [][after_reset' =>
             /\ config' = config
             /\ user_agents' = user_agents
             /\ current_user_agent_index' = current_user_agent_index]_vars

\* C20 witness: reset() was called at clock 30 on a limiter whose cursor
\* had been rotated to the second identity.
C20_Witness ==
    after_reset /\ current_user_agent_index = 1 /\ now = 30

\* The keys of the stats snapshot.
StatsKeys ==
    {"total_requests", "success_rate", "avg_response_time",
     "requests_per_minute", "consecutive_failures", "backoff_multiplier"}

\* C21: in every reachable state, the empty-history states included,
\* get_request_stats() returns a snapshot with all six keys, its
\* consecutive_failures and backoff_multiplier being the current ones.
C21_StatsHasAllKeys ==
    /\ DOMAIN get_request_stats = StatsKeys
    /\ get_request_stats.consecutive_failures = consecutive_failures
    /\ get_request_stats.backoff_multiplier = backoff_multiplier

\* last_request_time is unset exactly in the states without a recorded
\* outcome since construction or reset, and should_wait() is false there;
\* in every other state should_wait() is true iff the time since
\* last_request_time is strictly less than the drawn delay.
ShouldWaitContract ==
    /\ (recorded = 0) <=> (last_request_time = <<>>)
    /\ last_request_time = <<>> => \A j \in JitterHalves : ~should_wait(j)
    /\ last_request_time # <<>> =>
          \A j \in JitterHalves :
             should_wait(j) <=>
                (2 * (now - last_request_time[1])
                    < Min(PreJitterDelay * j, 2 * config.max_delay))

\* A step that begins a make_request call.
BeginsRequest == ~in_flight /\ in_flight'

\* C23, as stated: should_wait() is false in every state without a recorded
\* outcome since construction or reset (last_request_time is unset exactly
\* there), so the first request of a session is never delayed; in every
\* other state it is true iff the time since last_request_time is strictly
\* less than the drawn delay.
C23_FirstOfSessionNotDelayed ==
    /\ []ShouldWaitContract
    /\ [][(BeginsRequest /\ total_requests = 0) => now' = now]_vars

\* C23, amended: as above, with "the first request of a session" replaced
\* by "a request that begins while the limiter has no recorded outcome
\* since its construction or reset".
C23_ShouldWait ==
    /\ []ShouldWaitContract
    /\ [][(BeginsRequest /\ recorded = 0) => now' = now]_vars

\* C23 witness: one second after the last outcome, with a base delay of 2,
\* should_wait is false for the jitter draw 0.5 (delay 1.0) and true for
\* the draw 1.5 (delay 3.0).
C23_Witness ==
    /\ last_request_time # <<>> /\ now - last_request_time[1] = 1
    /\ ~should_wait(1) /\ should_wait(3) /\ ~in_flight

\* C29: of two states that differ only in backoff_multiplier (same
\* configuration, same consecutive_failures > 0, same jitter draw, result
\* below max_delay), calculate_delay() returns the larger delay in the one
\* with the larger multiplier.  The current state is compared with the one
\* whose multiplier is clamp(1.5^n, 1, 10).
C29_MultiplierAmplifiesDelay ==
    LET m0 == Clamp(RPow(<<3, 2>>, consecutive_failures)) IN
    \A j \in JitterHalves :
       (/\ consecutive_failures > 0
        /\ Lt(m0, backoff_multiplier)
        /\ Lt(calculate_delay_in(backoff_multiplier, j),
              <<config.max_delay, 1>>))
       => Lt(calculate_delay_in(m0, j),
             calculate_delay_in(backoff_multiplier, j))

\* C30: with no request in flight and every call ended by a return or an
\* Exception, the snapshot of get_session_stats() has total_requests equal
\* to the number of make_request calls made on the session, which is
\* successful_requests + failed_requests.
C30_SessionStatsTotal ==
    (~in_flight /\ total_requests = successful_requests + failed_requests)
       => /\ get_session_stats.total_requests = total_requests
          /\ get_session_stats.total_requests
                = get_session_stats.successful_requests
                  + get_session_stats.failed_requests

\* C28: a batch run driven by main in collect mode always completes: also
\* when queries failed or accepted nothing, collection returns and main
\* ends with exit code 0.
C28_BatchRunExitsZero ==
    (mode = "batch" /\ pc = "exit") => exit_code = <<0>>

\* C25: a scope around a scraper or a session is finalized on every exit
\* path: the exit step (close(), __exit__) runs exactly once, when the body
\* ends, whether the body returned or raised; what the body raised leaves
\* the scope unchanged; and what follows the scope (save_data, main's
\* except clauses and return) runs after the exit step.
C25_ScopeFinalized ==
    /\ [](exits <= 1)
    /\ []((scope = "closed") <=> (exits = 1))
    /\ [](scope = "closed" => propagated = body_raised)
    /\ []((pc \in {"save", "raised", "left", "exit"} \/ exit_code # <<>>)
            => scope = "closed")
    /\ [][(scope = "open" /\ pc' \in {"save", "raised", "left"})
            => (scope' = "closed" /\ exits' = exits + 1)]_vars
    /\ [][scope = "closed"
            => UNCHANGED <<scope, exits, body_raised, propagated>>]_vars

\* C25 witness: a batch run whose body was interrupted after a query had
\* accepted an item ended in main's except clause, the scraper closed once
\* and the interrupt passed on.
C25_Witness ==
    /\ mode = "batch" /\ pc = "exit" /\ exit_code = <<1>>
    /\ all_tweets # <<>>
    /\ exits = 1 /\ body_raised = "KeyboardInterrupt"
    /\ propagated = "KeyboardInterrupt"

\* A call of one of the four queries of the limiter.
QueryCall == GetRequestStats \/ IsRateLimited \/ CalculateDelay \/ ShouldWait

\* C22: get_request_stats(), is_rate_limited(), should_wait() and
\* calculate_delay() have no side effects: called in any state, each leaves
\* request_history, last_request_time, consecutive_failures,
\* backoff_multiplier and the identity cursor as they were.
C22_QueriesHaveNoEffect ==
    [][QueryCall =>
          UNCHANGED <<request_history, last_request_time,
                      consecutive_failures, backoff_multiplier,
                      current_user_agent_index>>]_vars

\* C22 witness: is_rate_limited() was called with a recorded failure older
\* than the trailing window still in the history and the cursor moved.
C22_Witness ==
    /\ called = "is_rate_limited"
    /\ request_history # <<>>
    /\ ~InWindow(request_history[1], now)
    /\ consecutive_failures > 0
    /\ current_user_agent_index = 1

\* How often v occurs in s.
Occurrences(s, v) == Cardinality({k \in 1..Len(s) : s[k] = v})

\* C24: the identity pool is never empty (an empty or missing configured
\* pool is replaced by the built-in defaults); 0 <= cursor < pool size;
\* each rotate_user_agent() advances the cursor by one modulo the pool size
\* and returns the identity at the new cursor; pool-size consecutive
\* rotate_user_agent() calls return every identity of the pool exactly
\* once; get_user_agent() returns a member of the pool and leaves the
\* cursor alone.
C24_IdentityPool ==
    /\ [](user_agents # <<>>)
    /\ [](current_user_agent_index \in 0..(Len(user_agents) - 1))
    /\ [][rotate_user_agent =>
            /\ current_user_agent_index' =
                  (current_user_agent_index + 1) % Len(user_agents)
            /\ Last(returned') = user_agents[current_user_agent_index' + 1]]_vars
    /\ []((called = "rotate_user_agent"
            /\ Len(returned) = Len(user_agents))
           => \A i \in 1..Len(user_agents) :
                 Occurrences(returned, user_agents[i]) = 1)
    /\ [](called = "get_user_agent" =>
            Len(returned) = 1 /\ returned[1] \in Range(user_agents))
    /\ [][get_user_agent =>
            current_user_agent_index' = current_user_agent_index]_vars

\* C24 witness: on the default pool (nothing configured) as many
\* consecutive rotations as the pool has identities were made, the first
\* of them from a cursor that earlier rotations had moved.
C24_Witness ==
    /\ user_agents = DefaultUserAgents
    /\ called = "rotate_user_agent"
    /\ Len(returned) = NDefaultAgents
    /\ returned[1] # user_agents[2]

\* C26: the asynchronous limiter refines the synchronous one: in every
\* state in which a task can begin a request, with the same clock reading
\* and jitter draws,
\* async_wait_if_needed sleeps exactly when wait_if_needed does and for the
\* same time (a task that begins a request sleeps for that time or goes on
\* at once), and the step of async_record_request is a step of
\* record_request with the same arguments.
C26_AsyncRefinesSync ==
    /\ []((\E t \in Tasks : CanBegin(t)) =>
             \A j1, j2 \in JitterHalves :
                async_wait_time(j1, j2) = wait_if_needed(j1, j2))
    /\ [][\A t \in Tasks :
             (task_pc[t] = "idle" /\ task_pc'[t] # "idle") =>
                \E j1, j2 \in JitterHalves :
                   \/ /\ wait_if_needed(j1, j2) = 0
                      /\ task_pc'[t] = "requesting"
                   \/ /\ wait_if_needed(j1, j2) > 0
                      /\ task_pc'[t] = "sleeping"
                      /\ task_local'[t].wake
                            = now + wait_if_needed(j1, j2)]_vars
    /\ [][\A t \in Tasks :
             (task_pc[t] = "recording" /\ task_pc'[t] = "idle") =>
                record_request(task_local[t].result[1].success,
                               task_local[t].result[1].response_time,
                               user_agents[1], now)]_vars

\* C26 witness: after a recorded failure one task sleeps the backed-off
\* delay while another task found that it need not wait and has its request
\* in flight.
C26_Witness ==
    /\ consecutive_failures = 1
    /\ \E t, u \in Tasks :
          /\ task_pc[t] = "sleeping"
          /\ task_local[t].wake > now
          /\ task_pc[u] = "requesting"
          /\ task_local[u].wake = now
          /\ task_local[u].seq > task_local[t].seq

\* The entries of the completion log as record_request stores them.
RECURSIVE AsRequestInfo(_)
AsRequestInfo(log) ==
    IF log = <<>> THEN <<>>
    ELSE Append(AsRequestInfo(SubSeq(log, 1, Len(log) - 1)),
                [timestamp |-> Last(log).timestamp,
                 success |-> Last(log).success,
                 response_time |-> Last(log).response_time])

\* consecutive_failures and backoff_multiplier after the outcomes of log
\* were applied one after the other to a fresh limiter.
RECURSIVE FailuresAfter(_)
FailuresAfter(log) ==
    IF log = <<>> THEN 0
    ELSE IF Last(log).success THEN 0
    ELSE FailuresAfter(SubSeq(log, 1, Len(log) - 1)) + 1

RECURSIVE MultiplierAfter(_)
MultiplierAfter(log) ==
    IF log = <<>> THEN ONE
    ELSE LET m == MultiplierAfter(SubSeq(log, 1, Len(log) - 1)) IN
         IF Last(log).success THEN RMax(ONE, Mul(m, <<9, 10>>))
                              ELSE RMin(<<10, 1>>, Mul(m, <<3, 2>>))

\* The completed requests whose outcome has been recorded.
RecordedLog == SubSeq(completed, 1, recorded)

\* C27: with several tasks on one AsyncRateLimiter, under every
\* interleaving at the suspension points, the outcome of each completed
\* request is recorded exactly once (all but the one of the task that is
\* just recording are), the history holds the outcomes in completion
\* order, and consecutive_failures and backoff_multiplier are those of
\* applying the outcomes one by one in completion order.
C27_OutcomesInCompletionOrder ==
    /\ Len(completed) =
          recorded + Cardinality({t \in Tasks : task_pc[t] = "recording"})
    /\ Cardinality({t \in Tasks : task_pc[t] = "recording"}) <= 1
    /\ request_history = LastN(AsRequestInfo(RecordedLog), HistoryMaxLen)
    /\ consecutive_failures = FailuresAfter(RecordedLog)
    /\ backoff_multiplier = MultiplierAfter(RecordedLog)
    /\ \A i, k \in 1..Len(completed) : i # k => completed[i].seq # completed[k].seq

\* C27 witness: two requests were in flight together and the one begun
\* later completed first; both outcomes are recorded, a failure then a
\* success.
C27_Witness ==
    /\ Len(completed) >= 2 /\ recorded = Len(completed)
    /\ completed[1].seq > completed[2].seq
    /\ ~completed[1].success /\ completed[2].success
    /\ backoff_multiplier = <<27, 20>>

\* backoff_multiplier after k successes recorded one after the other,
\* from the value m.
RECURSIVE AfterSuccesses(_, _)
AfterSuccesses(m, k) ==
    IF k = 0 THEN m ELSE NextMultiplier(TRUE, AfterSuccesses(m, k - 1))

\* C31: record_request on a success multiplies backoff_multiplier by 0.9
\* with a floor of 1.0 and does not reset it, so that k successes in a row
\* from the value m leave max(1.0, m * 0.9^k); on a failure it multiplies
\* by 1.5 with a ceiling of 10.0 and adds exactly one to
\* consecutive_failures; in both cases last_request_time becomes the
\* timestamp of the new outcome.
C31_RecordArithmetic ==
    /\ [][recorded' = recorded + 1 =>
            /\ last_request_time' = <<Last(request_history').timestamp>>
            /\ Last(request_history').timestamp = now'
            /\ IF Last(request_history').success
               THEN backoff_multiplier' =
                       RMax(ONE, Mul(backoff_multiplier, <<9, 10>>))
               ELSE /\ backoff_multiplier' =
                          RMin(TEN, Mul(backoff_multiplier, <<3, 2>>))
                    /\ consecutive_failures' = consecutive_failures + 1]_vars
    /\ [](\A k \in 0..(MaxRecords - recorded) :
             AfterSuccesses(backoff_multiplier, k)
                = RMax(ONE, Mul(backoff_multiplier, RPow(<<9, 10>>, k))))

\* C31 witness: two successes after three failures left the multiplier at
\* 1.5^3 * 0.9^2, above the floor: it was not reset.
C31_Witness ==
    /\ recorded = 5 /\ consecutive_failures = 0
    /\ backoff_multiplier = <<2187, 800>>
    /\ last_request_time = <<Last(request_history).timestamp>>

\* The outcomes recorded since construction or the last reset(), oldest
\* first.
OutcomesSinceReset == LastN(completed, recorded)

\* C35: consecutive_failures is the length of the trailing run of failures
\* in the full sequence of outcomes recorded since construction or the last
\* reset(), also when the run is longer than the history's capacity.
C35_FailuresAreTrailingRun ==
    LET log == OutcomesSinceReset
        n == consecutive_failures
    IN /\ n \in 0..Len(log)
       /\ \A i \in (Len(log) - n + 1)..Len(log) : ~log[i].success
       /\ n < Len(log) => log[Len(log) - n].success

\* C35 witness: after a reset, a success and then more failures than the
\* history holds were recorded.
C35_Witness ==
    /\ consecutive_failures > HistoryMaxLen
    /\ Len(request_history) = HistoryMaxLen
    /\ recorded = consecutive_failures + 1
    /\ recorded < Len(completed)

\* C36: for a session whose request function never ended with anything but
\* a return or an Exception: with no request in flight, total_requests =
\* successful_requests + failed_requests and the limiter holds that many
\* recorded outcomes of the session; with a request in flight,
\* total_requests is larger than the sum by exactly one.
C36_SessionCounters ==
    interrupts = 0 =>
       /\ ~in_flight =>
             /\ total_requests = successful_requests + failed_requests
             /\ recorded = total_requests
       /\ in_flight =>
             /\ total_requests = successful_requests + failed_requests + 1
             /\ recorded = total_requests - 1

\* C36 witness: three calls ended, one by a return and two by an Exception;
\* the history holds fewer entries than were recorded.
C36_Witness ==
    /\ ~in_flight /\ interrupts = 0
    /\ total_requests = 3 /\ successful_requests = 1 /\ failed_requests = 2
    /\ recorded = 3 /\ Len(request_history) < recorded

\* C37: whenever wait_if_needed() returns in a state with a prior request,
\* the time since last_request_time is at least min(0.5 * d, max_delay), d
\* being the delay of the state before the jitter is applied; the draw
\* compared by should_wait and the draw slept are independent.
C37_MinimumSpacing ==
    [][(~in_flight /\ in_flight' /\ last_request_time # <<>>) =>
          2 * (now' - last_request_time[1])
             >= Min(PreJitterDelay, 2 * config.max_delay)]_vars

\* C37 witness: after a failure, with backoff, should_wait compared a large
\* draw and the sleep used the smallest one: the request goes out exactly
\* half the pre-jitter delay after the last outcome.
C37_Witness ==
    /\ in_flight /\ last_request_time # <<>>
    /\ consecutive_failures = 1 /\ config.exponential_backoff
    /\ 2 * (now - last_request_time[1]) = PreJitterDelay

\* The loop's <<tweets, seen_hashes>> after the first i elements of a page
\* found in the current state.
AfterElements(page, i) ==
    ProcessPage(SubSeq(page, 1, i), tweets, seen_hashes, max_tweets)

\* Element by element: the element the for loop reaches (the limit is not
\* met) and extracts a record from is a candidate; it is appended exactly
\* when its hash is absent from the set at that moment, and its hash is
\* added with it; every other element leaves list and set alone.
CandidatesAppendedIffAbsent ==
    \A page \in Pages : \A i \in 1..Len(page) :
        LET before == AfterElements(page, i - 1)
            after == AfterElements(page, i)
            c == page[i]
            candidate == Len(before[1]) < max_tweets /\ c # NoRecord
        IN  IF candidate /\ c \notin before[2]
            THEN after = <<Append(before[1], c), before[2] \cup {c}>>
            ELSE after = before

\* C32: the dedup set of a run only grows; a candidate is appended to the
\* query's results iff its fingerprint is absent from the set at that
\* moment, and the fingerprint is inserted in the same step; so the
\* fingerprints of all accepted items are in the set and the set's size is
\* the number of items accepted so far in the run.
C32_DedupSetGrowsWithAccepted ==
    /\ [](/\ Range(Accepted) \subseteq seen_hashes
          /\ Cardinality(seen_hashes) = Len(Accepted)
          /\ pc = "loop" => CandidatesAppendedIffAbsent)
    /\ [][/\ seen_hashes \subseteq seen_hashes'
          /\ IsPrefix(Accepted, Accepted')
          /\ seen_hashes' \ seen_hashes
                = Range(Accepted') \ Range(Accepted)]_vars

\* C32 witness: a streaming session whose second query, after an item was
\* yielded, met that item's hash again and accepted a new one: two items
\* accepted, two hashes in the set.
C32_Witness ==
    /\ mode = "stream" /\ pc = "scroll" /\ qi = 2 /\ dup_rejected
    /\ Len(yielded) = 1 /\ Len(tweets) = 1
    /\ Cardinality(seen_hashes) = 2

\* The batch of the last query is delivered: nothing of it is left to
\* yield, and the items its loop accepted (tweets, in acceptance order) are
\* the last items yielded.
BatchDelivered ==
    /\ batch_tweets = <<>>
    /\ LastN(yielded, Len(tweets)) = tweets

\* A loop of the streaming session one item short of its limit, the items
\* so far carrying hashes no page of the model shows.
NearlyFull == [i \in 1..(StreamBatchSize - 1) |-> NFingerprints + i]

\* C33: in streaming mode a query contributes at most 10 items per cycle,
\* and every item its batch accepted is yielded, in acceptance order,
\* before the pacing sleep and before the next query's batch is started.
C33_BatchYieldedBeforePacing ==
    /\ [](mode = "stream" =>
            /\ max_tweets = StreamBatchSize
            /\ Len(tweets) <= StreamBatchSize
            /\ Len(batch_tweets) <= StreamBatchSize
            /\ \A page \in Pages :
                  Len(ProcessPage(page, NearlyFull,
                                  seen_hashes \cup Range(NearlyFull),
                                  max_tweets)[1]) <= StreamBatchSize
            /\ pc \in {"sleep", "for", "while", "done"} => BatchDelivered)
    /\ [][mode = "stream" =>
            /\ (pc = "ret" /\ pc' = "yield") => batch_tweets' = tweets
            /\ yielded' # yielded =>
                  /\ pc = "yield"
                  /\ IsPrefix(yielded, yielded')
                  /\ yielded' \o batch_tweets' = yielded \o batch_tweets
            /\ (pc = "sleep" /\ pc' # "sleep") =>
                  BatchDelivered /\ last_sleep' = "pacing" /\ qi' = qi + 1
            /\ (pc = "for" /\ pc' = "search") => BatchDelivered]_vars

\* C33 witness: the second query's batch accepted one item after the first
\* query's batch had accepted and yielded one; both are yielded, in that
\* order, and the session is about to sleep.
C33_Witness ==
    /\ mode = "stream" /\ pc = "sleep" /\ qi = 2
    /\ tweets = <<1>> /\ yielded = <<2, 1>> /\ batch_tweets = <<>>

\* The for loop of collect_tweets is over.
QueriesOver == pc \in {"final", "done", "save", "exit"}

\* C34: nothing is retried in batch mode: within one collect_tweets call
\* the pagination loop of each query is started exactly once, in the order
\* of the query list, and a query whose fetch failed is not attempted
\* again in that run.
C34_EachQueryStartedOnce ==
    /\ [](mode = "batch" =>
            /\ IsPrefix(started, hashtags)
            /\ QueriesOver => started = hashtags
            /\ InLoop => Len(started) = qi)
    /\ [][mode = "batch" =>
            /\ started' # started =>
                  /\ pc = "for" /\ pc' = "search"
                  /\ started' = Append(started, hashtags[Len(started) + 1])
            /\ (pc = "ret" /\ pc' # "ret") =>
                  /\ pc' = "for" /\ started' = started
                  /\ qi' = Len(started) + 1]_vars

\* C34 witness: a call with two queries is over; the loop of the last
\* query met a fetch failure, nothing was accepted, and each query was
\* started once.
C34_Witness ==
    /\ mode = "batch" /\ pc = "done" /\ hashtags = <<1, 2>>
    /\ started = <<1, 2>> /\ failure # "none" /\ all_tweets = <<>>

-----------------------------------------------------------------------------
(* DataValidator.validate_tweet_batch (src/data_validator.py) *)

\* A tweet as the batch loop sees it: its content_hash, and whether
\* validate_tweet finds it valid (is_valid: no error in its fields).
TweetRecords == [content_hash : Fingerprints, is_valid : BOOLEAN]
Batches == UNION {[1..n -> TweetRecords] : n \in 0..MaxBatchLen}

ZERO == <<0, 1>>

\* if tweet.content_hash in content_hashes:
IsDuplicate_Never(h, hashes) == FALSE
IsDuplicate(h, hashes) == h \in hashes

\* quality_score = valid_records / total_records if total_records > 0
\*                 else 0.0
BatchQualityScore(valid, total) ==
    IF total > 0 THEN Norm(<<valid, total>>) ELSE ZERO

validatorFrame ==
    <<collectVars, now, limiterVars, sessionVars, scopeVars, called,
      returned, taskVars>>

\* The call up to the for loop.
InitValidate ==
    /\ collectIdle
    /\ now = 0
    /\ config = DemoConfig /\ user_agents = <<1>>
    /\ limiterInit /\ sessionInit
    /\ noScope /\ noTasks
    /\ called = "none" /\ returned = <<>>
    /\ tweet_batch \in Batches
    /\ next_tweet = 1
    /\ total_records = Len(tweet_batch)
    /\ valid_records = 0 /\ invalid_records = 0 /\ duplicate_records = 0
    /\ content_hashes = {} /\ validated = {}
    /\ metrics = <<>>

\* for tweet in tweets: the hash is known: duplicate_records += 1; continue
CountDuplicate ==
    /\ metrics = <<>> /\ next_tweet \in 1..Len(tweet_batch)
    /\ IsDuplicate(tweet_batch[next_tweet].content_hash, content_hashes)
    /\ duplicate_records' = duplicate_records + 1
    /\ next_tweet' = next_tweet + 1
    /\ UNCHANGED <<validatorFrame, tweet_batch, total_records, valid_records,
                   invalid_records, content_hashes, validated, metrics>>

\* for tweet in tweets: the hash is new: it is added, validate_tweet is
\* called and the tweet is counted as valid or invalid.
ValidateTweet ==
    /\ metrics = <<>> /\ next_tweet \in 1..Len(tweet_batch)
    /\ ~IsDuplicate(tweet_batch[next_tweet].content_hash, content_hashes)
    /\ content_hashes' =
          content_hashes \cup {tweet_batch[next_tweet].content_hash}
    /\ validated' = validated \cup {next_tweet}
    /\ IF tweet_batch[next_tweet].is_valid
       THEN /\ valid_records' = valid_records + 1
            /\ invalid_records' = invalid_records
       ELSE /\ invalid_records' = invalid_records + 1
            /\ valid_records' = valid_records
    /\ next_tweet' = next_tweet + 1
    /\ UNCHANGED <<validatorFrame, tweet_batch, total_records,
                   duplicate_records, metrics>>

\* After the loop: quality_score, return DataQualityMetrics(...).
ReturnMetrics ==
    /\ metrics = <<>> /\ next_tweet = Len(tweet_batch) + 1
    /\ metrics' = <<[total_records |-> total_records,
                     valid_records |-> valid_records,
                     invalid_records |-> invalid_records,
                     duplicate_records |-> duplicate_records,
                     quality_score |->
                        BatchQualityScore(valid_records, total_records)]>>
    /\ UNCHANGED <<validatorFrame, tweet_batch, next_tweet, total_records,
                   valid_records, invalid_records, duplicate_records,
                   content_hashes, validated>>

NextValidate == CountDuplicate \/ ValidateTweet \/ ReturnMetrics

SpecValidate == InitValidate /\ [][NextValidate]_vars

\* The positions of a batch whose content hash occurs at an earlier
\* position.
Repeats(b) ==
    {i \in 1..Len(b) : \E j \in 1..(i - 1) :
                          b[j].content_hash = b[i].content_hash}

\* C38: validate_tweet_batch partitions its input: total_records =
\* valid_records + invalid_records + duplicate_records; a record is counted
\* as duplicate exactly when its content hash occurred earlier in the batch,
\* and is then not validated; quality_score = valid_records / total_records
\* lies in [0, 1], and is 0 for an empty batch.
C38_BatchPartition ==
    metrics # <<>> =>
        LET m == metrics[1]
            firsts == (1..Len(tweet_batch)) \ Repeats(tweet_batch)
        IN  /\ m.total_records = Len(tweet_batch)
            /\ m.total_records = m.valid_records + m.invalid_records
                                    + m.duplicate_records
            /\ m.duplicate_records = Cardinality(Repeats(tweet_batch))
            /\ validated = firsts
            /\ m.valid_records =
                  Cardinality({i \in firsts : tweet_batch[i].is_valid})
            /\ m.invalid_records =
                  Cardinality({i \in firsts : ~tweet_batch[i].is_valid})
            /\ Leq(ZERO, m.quality_score) /\ Leq(m.quality_score, ONE)
            /\ m.quality_score[1] * m.total_records
                  = m.valid_records * m.quality_score[2]
            /\ tweet_batch = <<>> => m.quality_score = ZERO

\* C38 witness: a batch of three, a valid record, its repeat, and an
\* invalid one: one of each kind is counted and the score is 1/3.
C38_Witness ==
    /\ metrics # <<>> /\ Len(tweet_batch) = 3
    /\ metrics[1].valid_records = 1 /\ metrics[1].invalid_records = 1
    /\ metrics[1].duplicate_records = 1
    /\ metrics[1].quality_score = <<1, 3>>

=============================================================================
